---- MODULE Spec2Model ----
(***************************************************************************)
(* Model of MorphAgent.split_subagents (src/agent.py), the fan-out/fan-in  *)
(* dispatcher: a ThreadPoolExecutor of num_agents workers runs one         *)
(* SubAgent(template).run per template, and the caller drains the futures  *)
(* with concurrent.futures.as_completed, labelling each outcome with the   *)
(* position at which the iterator yielded it.                              *)
(*                                                                         *)
(* Futures are numbered 1..n in submission order (future k was created for *)
(* task_templates[k], submission index k-1).                               *)
(***************************************************************************)
EXTENDS Integers, Sequences, FiniteSets, TLC

VARIABLES
    num_agents,       \* argument num_agents of split_subagents
    task_templates,   \* argument task_templates (a sequence of templates)
    pc,               \* position of the calling thread inside split_subagents
    results,          \* the local list `results`
    raised,           \* exception propagating out of / raised by the call
    submitted,        \* number of futures created so far (len(futures))
    fstate,           \* future k: "pending" | "running" | "finished"
    calls,            \* number of times SubAgent.run was invoked for future k
    queue,            \* executor._work_queue: future numbers, None is the wake-up
    nthreads,         \* len(executor._threads)
    running,          \* futures whose work item is inside fn() on some worker
    releasing,        \* workers past work_item.run(), before _idle_semaphore.release()
    idleSem,          \* executor._idle_semaphore
    nexited,          \* worker threads that have returned from _worker
    shutdown,         \* executor._shutdown
    finished,         \* as_completed: futures found finished when it started
    waiterQ,          \* as_completed: waiter.finished_futures, in completion order
    yielded,          \* futures as_completed has yielded so far, in yield order
    signal,           \* signal delivered to the calling thread during the call
    atSignal,         \* futures that were not finished when the signal arrived
    other,            \* a second split_subagents call in progress: its own
                      \* arguments, locals, executor and futures, as a record
    task_type,        \* CodingAgent.split_coding_subagents: its task_type argument
    project_id,       \* CodingAgent.split_coding_subagents: its project_id argument
    code_projects,    \* CodingAgent.code_projects: the ids of the known projects
    todos,            \* MorphCLIController.todos: list of {text, done}
    todo_file,        \* what save_todos wrote last (the content of .todos.json)
    cli_running,      \* MorphCLIController.running
    conversation_history,  \* MorphAgent.conversation_history, as the list of roles
    cli_pc,           \* where MorphCLIController.run() is
    cleanups,         \* how many times cleanup() has been executed
    pending,          \* handle_split_command: its local `pending`
    line,             \* command_history[-1]: the input line read last
    nlines,           \* len(command_history)
    history,          \* truncate_history: its history argument
    max_messages,     \* truncate_history: its max_messages argument
    truncated,        \* truncate_history: the list it returned
    util_pc           \* where the truncate_history call is

vars == <<num_agents, task_templates, pc, results, raised, submitted, fstate,
          calls, queue, nthreads, running, releasing, idleSem, nexited,
          shutdown, finished, waiterQ, yielded, signal, atSignal, other,
          task_type, project_id, code_projects, todos, todo_file, cli_running,
          conversation_history, cli_pc, cleanups, pending, line, nlines,
          history, max_messages, truncated, util_pc>>

\* The state of a truncate_history call.
utilVars == <<history, max_messages, truncated, util_pc>>

\* The state of a CodingAgent call and of a CLI session.
codingVars == <<task_type, project_id, code_projects>>

cliVars == <<todos, todo_file, cli_running, conversation_history, cli_pc,
             cleanups, pending, line, nlines>>

\* ------------------------------------------------------------------ bounds
MaxTasks == 3
MaxAgents == 3

\* ------------------------------------------------------------- the worker
\* Templates whose formatting succeeds, one whose formatting raises an
\* Exception, and one whose formatting raises a BaseException that is not an
\* Exception (SystemExit, KeyboardInterrupt, GeneratorExit).
OkTemplates == {"a", "b"}
Templates == OkTemplates \cup {"boom", "exit"}

None == 0

\* SubAgent.run: f"SubAgent completed task: {self.task}".  What the call does
\* depends on the template alone.
RunKind(task) ==
    IF task = "boom" THEN "Exception"
    ELSE IF task = "exit" THEN "BaseException"
    ELSE "return"

RunValue(task) == <<"SubAgent completed task: ", task>>

\* str(exc) of the exception formatting `task` raised.
StrExc(task) == <<"error formatting ", task>>

N == Len(task_templates)
Futures == 1..N

Min(a, b) == IF a <= b THEN a ELSE b

\* No second call is in progress.
NoCall ==
    [pc |-> "absent", num_agents |-> 0, task_templates |-> <<>>, results |-> <<>>,
     raised |-> "none", submitted |-> 0, fstate |-> <<>>, queue |-> <<>>,
     nthreads |-> 0, running |-> {}, releasing |-> 0, idleSem |-> 0,
     nexited |-> 0, shutdown |-> FALSE, finished |-> {}, waiterQ |-> <<>>,
     yielded |-> <<>>]

\* project_id = None, the default of split_coding_subagents.
NoProject == "<None>"

\* No input line has been read.
NoLine == [cmd |-> "", text |-> "", num |-> 0]

\* No CodingAgent call and no CLI session is in progress.
NoCodingCall ==
    /\ task_type = ""
    /\ project_id = NoProject
    /\ code_projects = {}

\* No truncate_history call is in progress.
NoUtilCall ==
    /\ history = <<>>
    /\ max_messages = 0
    /\ truncated = <<>>
    /\ util_pc = "absent"

NoSession ==
    /\ todos = <<>>
    /\ todo_file = <<>>
    /\ cli_running = FALSE
    /\ conversation_history = <<>>
    /\ cli_pc = "absent"
    /\ cleanups = 0
    /\ pending = <<>>
    /\ line = NoLine
    /\ nlines = 0

\* ------------------------------------------------------------------- Init
Init ==
    /\ num_agents \in -1..MaxAgents
    /\ task_templates \in UNION {[1..n -> Templates] : n \in 0..MaxTasks}
    /\ pc = "call"
    /\ results = <<>>
    /\ raised = "none"
    /\ submitted = 0
    /\ fstate = [k \in 1..Len(task_templates) |-> "pending"]
    /\ calls = [k \in 1..Len(task_templates) |-> 0]
    /\ queue = <<>>
    /\ nthreads = 0
    /\ running = {}
    /\ releasing = 0
    /\ idleSem = 0
    /\ nexited = 0
    /\ shutdown = FALSE
    /\ finished = {}
    /\ waiterQ = <<>>
    /\ yielded = <<>>
    /\ signal = "none"
    /\ atSignal = {}
    /\ other = NoCall
    /\ NoCodingCall
    /\ NoSession
    /\ NoUtilCall

\* --------------------------------------------------- the calling thread
\* ThreadPoolExecutor(max_workers=num_agents): the constructor raises
\* ValueError("max_workers must be greater than 0") for num_agents <= 0, after
\* `results = []` and before any submit.
InvalidBudgetNegativeOnly(n) == n < 0

InvalidBudgetOffByOne(n) == n <= 1

InvalidBudget(n) == n <= 0

Construct ==
    /\ pc = "call"
    /\ IF InvalidBudget(num_agents)
          THEN /\ pc' = "raised"
               /\ raised' = "ValueError"
          ELSE /\ pc' = "submit"
               /\ raised' = raised
    /\ UNCHANGED <<other, signal, atSignal, codingVars, utilVars, cliVars>>
    /\ UNCHANGED <<num_agents, task_templates, results, submitted, fstate, calls,
                   queue, nthreads, running, releasing, idleSem, nexited,
                   shutdown, finished, waiterQ, yielded>>

\* executor._adjust_thread_count(): no new thread when an idle token can be
\* taken; otherwise one new thread while len(_threads) < _max_workers.
SpawnsThreadOnlyFirst(idle, threads, max_workers) == idle = 0 /\ threads < 1

SpawnsThreadUnbounded(idle, threads, max_workers) == idle = 0

SpawnsThread(idle, threads, max_workers) == idle = 0 /\ threads < max_workers

\* submit puts one work item for the new future on the work queue.
EnqueuedTwice(q, k) == Append(Append(q, k), k)

Enqueued(q, k) == Append(q, k)

\* The list comprehension submits once per element of task_templates.
SubmitCountPadded == IF num_agents > N THEN num_agents ELSE N

SubmitCount == N

\* executor.submit(SubAgent(template).run) for the next template of the list
\* comprehension: the work item is queued, then the thread count is adjusted.
Submit ==
    /\ pc = "submit"
    /\ submitted < SubmitCount
    /\ submitted' = submitted + 1
    /\ queue' = Enqueued(queue, submitted + 1)
    /\ idleSem' = IF idleSem > 0 THEN idleSem - 1 ELSE idleSem
    /\ nthreads' = IF SpawnsThread(idleSem, nthreads, num_agents)
                      THEN nthreads + 1 ELSE nthreads
    /\ UNCHANGED <<other, signal, atSignal, codingVars, utilVars, cliVars>>
    /\ UNCHANGED <<num_agents, task_templates, pc, results, raised, fstate, calls,
                   running, releasing, nexited, shutdown, finished, waiterQ,
                   yielded>>

\* The first next() on as_completed(futures): under the futures' locks it
\* takes the set of futures already finished and installs its waiter on all
\* of them.  With no futures the generator ends at once and the for loop is
\* skipped.
AsCompletedStart ==
    /\ pc = "submit"
    /\ submitted = SubmitCount
    /\ finished' = {k \in Futures : fstate[k] = "finished"}
    /\ pc' = IF N = 0 THEN "exit" ELSE "collect"
    /\ UNCHANGED <<other, signal, atSignal, codingVars, utilVars, cliVars>>
    /\ UNCHANGED <<num_agents, task_templates, results, raised, submitted, fstate,
                   calls, queue, nthreads, running, releasing, idleSem, nexited,
                   shutdown, waiterQ, yielded>>

\* The futures as_completed can yield next: any of the futures that were
\* finished when it started (a set, listed in arbitrary order), and once
\* those are exhausted the oldest entry of waiter.finished_futures.
NextYield ==
    IF finished # {} THEN finished
    ELSE IF waiterQ # <<>> THEN {Head(waiterQ)}
    ELSE {}

\* enumerate(as_completed(futures), 1): idx of the future yielded now.
Idx == Len(yielded) + 1

\* The dict appended by the loop body for the future k yielded at position idx.
ErrorOutcomeInResultField(idx, k) ==
    [task_id |-> idx, status |-> "error", result |-> StrExc(task_templates[k])]

SuccessOutcome(idx, k) ==
    [task_id |-> idx, status |-> "success", result |-> RunValue(task_templates[k])]

ErrorOutcome(idx, k) ==
    [task_id |-> idx, status |-> "error", error |-> StrExc(task_templates[k])]

\* `except Exception as exc`: what future.result() raised is caught when it
\* is an Exception; any other BaseException leaves the loop.
Caught(kind) == kind = "Exception"

\* The loop body's effect on `results` for future k yielded at position idx,
\* whose result() returned (kind "return") or raised an Exception.
BodyOnSharedList(res, idx, k, kind) ==
    IF kind = "return" THEN Append(res \o other.results, SuccessOutcome(idx, k))
    ELSE Append(res \o other.results, ErrorOutcome(idx, k))

BodySkipsErrors(res, idx, k, kind) ==
    IF kind = "return" THEN Append(res, SuccessOutcome(idx, k)) ELSE res

Body(res, idx, k, kind) ==
    IF kind = "return" THEN Append(res, SuccessOutcome(idx, k))
    ELSE Append(res, ErrorOutcome(idx, k))

\* as_completed ends (StopIteration) once it has yielded every future:
\* `finished` is used up and `pending` is empty.
ExhaustedAfterFirst(n_yielded) == n_yielded >= 1

Exhausted(n_yielded) == n_yielded = N

\* One iteration of the for loop: as_completed yields future k and the body
\* appends its outcome, or future.result() raises past `except Exception`
\* and the with block is left with the exception pending.
Collect(k) ==
    /\ pc = "collect"
    /\ k \in NextYield
    /\ yielded' = Append(yielded, k)
    /\ IF finished # {}
          THEN /\ finished' = finished \ {k}
               /\ waiterQ' = waiterQ
          ELSE /\ waiterQ' = Tail(waiterQ)
               /\ finished' = finished
    /\ LET kind == RunKind(task_templates[k]) IN
         IF kind = "return" \/ Caught(kind)
            THEN /\ results' = Body(results, Idx, k, kind)
                 /\ raised' = raised
                 /\ pc' = IF Exhausted(Len(yielded')) THEN "exit" ELSE "collect"
            ELSE /\ results' = results
                 /\ raised' = kind
                 /\ pc' = "exit"
    /\ UNCHANGED <<other, signal, atSignal, codingVars, utilVars, cliVars>>
    /\ UNCHANGED <<num_agents, task_templates, submitted, fstate, calls, queue,
                   nthreads, running, releasing, idleSem, nexited, shutdown>>

\* ThreadPoolExecutor.__exit__ -> shutdown(wait=True): sets _shutdown and
\* queues the None wake-up behind the work items still queued.
Shutdown ==
    /\ pc = "exit"
    /\ shutdown' = TRUE
    /\ queue' = Append(queue, None)
    /\ pc' = "join"
    /\ UNCHANGED <<other, signal, atSignal, codingVars, utilVars, cliVars>>
    /\ UNCHANGED <<num_agents, task_templates, results, raised, submitted, fstate,
                   calls, nthreads, running, releasing, idleSem, nexited,
                   finished, waiterQ, yielded>>

\* shutdown joins every worker thread; then `return results`, or the pending
\* exception leaves split_subagents.
AllJoined == nexited = nthreads

Join ==
    /\ pc = "join"
    /\ AllJoined
    /\ pc' = IF raised = "none" THEN "returned" ELSE "raised"
    /\ UNCHANGED <<other, signal, atSignal, codingVars, utilVars, cliVars>>
    /\ UNCHANGED <<num_agents, task_templates, results, raised, submitted, fstate,
                   calls, queue, nthreads, running, releasing, idleSem, nexited,
                   shutdown, finished, waiterQ, yielded>>

\* ---------------------------------------------------- the worker threads
\* Threads blocked in work_queue.get(block=True).
IdleThreads == nthreads - nexited - Cardinality(running) - releasing

\* A worker takes the next work item and enters fn(), i.e. SubAgent.run.
WorkerStart ==
    /\ IdleThreads > 0
    /\ queue # <<>>
    /\ Head(queue) # None
    /\ LET k == Head(queue) IN
         /\ fstate' = [fstate EXCEPT ![k] = "running"]
         /\ calls' = [calls EXCEPT ![k] = @ + 1]
         /\ running' = running \cup {k}
    /\ queue' = Tail(queue)
    /\ UNCHANGED <<other, signal, atSignal, codingVars, utilVars, cliVars>>
    /\ UNCHANGED <<num_agents, task_templates, pc, results, raised, submitted,
                   nthreads, releasing, idleSem, nexited, shutdown, finished,
                   waiterQ, yielded>>

\* The waiter of as_completed is installed on the futures from the moment the
\* generator starts until the for loop is left.
WaiterInstalledEarly == pc \in {"submit", "collect"}

WaiterInstalled == pc = "collect"

\* SubAgent.run returns or raises; _WorkItem.run stores the result or the
\* exception (it catches BaseException) in the future, which notifies the
\* waiter of as_completed when one is installed.
WorkerFinish(k) ==
    /\ k \in running
    /\ fstate' = [fstate EXCEPT ![k] = "finished"]
    /\ running' = running \ {k}
    /\ releasing' = releasing + 1
    /\ waiterQ' = IF WaiterInstalled THEN Append(waiterQ, k) ELSE waiterQ
    /\ UNCHANGED <<other, signal, atSignal, codingVars, utilVars, cliVars>>
    /\ UNCHANGED <<num_agents, task_templates, pc, results, raised, submitted,
                   calls, queue, nthreads, idleSem, nexited, shutdown, finished,
                   yielded>>

\* After work_item.run() the worker releases the idle semaphore and loops.
WorkerRelease ==
    /\ releasing > 0
    /\ releasing' = releasing - 1
    /\ idleSem' = idleSem + 1
    /\ UNCHANGED <<other, signal, atSignal, codingVars, utilVars, cliVars>>
    /\ UNCHANGED <<num_agents, task_templates, pc, results, raised, submitted,
                   fstate, calls, queue, nthreads, running, nexited, shutdown,
                   finished, waiterQ, yielded>>

\* A worker takes None after shutdown: it puts None back for the other
\* workers and returns.
WorkerExit ==
    /\ IdleThreads > 0
    /\ queue # <<>>
    /\ Head(queue) = None
    /\ shutdown
    /\ queue' = Append(Tail(queue), None)
    /\ nexited' = nexited + 1
    /\ UNCHANGED <<other, signal, atSignal, codingVars, utilVars, cliVars>>
    /\ UNCHANGED <<num_agents, task_templates, pc, results, raised, submitted,
                   fstate, calls, nthreads, running, releasing, idleSem, shutdown,
                   finished, waiterQ, yielded>>

Next ==
    \/ Construct
    \/ Submit
    \/ AsCompletedStart
    \/ \E k \in Futures : Collect(k)
    \/ Shutdown
    \/ Join
    \/ WorkerStart
    \/ \E k \in Futures : WorkerFinish(k)
    \/ WorkerRelease
    \/ WorkerExit

Spec == Init /\ [][Next]_vars

\* Every step the scheduler can take is eventually taken: worker threads run,
\* every SubAgent.run finishes, and the calling thread is scheduled.
FairSpec == Spec /\ WF_vars(Next)

\* ------------------------------------------- signals during a dispatch
\* MorphCLIController.init_signal_handlers installs handle_interrupt for
\* SIGINT and handle_terminate for SIGTERM; Python runs a handler in the main
\* thread, which is the thread inside split_subagents, also while it waits.
Unfinished == {k \in Futures : fstate[k] # "finished"}

InDispatch == pc \in {"submit", "collect", "exit", "join"}

\* cleanup(): the readline history and the todos are saved and the farewell
\* is printed, each time it is called; nothing records that it has run.
CleanupCount(n) == n + 1

\* Ctrl+C: handle_interrupt prints a hint and returns; the call goes on.
Sigint ==
    /\ InDispatch
    /\ signal = "none"
    /\ signal' = "SIGINT"
    /\ atSignal' = Unfinished
    /\ UNCHANGED <<other, codingVars, utilVars, cliVars>>
    /\ UNCHANGED <<num_agents, task_templates, pc, results, raised, submitted,
                   fstate, calls, queue, nthreads, running, releasing, idleSem,
                   nexited, shutdown, finished, waiterQ, yielded>>

\* SIGTERM: handle_terminate runs cleanup() and sys.exit(0); SystemExit is
\* raised in the calling thread.  Inside the with block it leaves the block
\* through ThreadPoolExecutor.__exit__ (shutdown and join still run); raised
\* while shutdown is joining the workers it leaves the call at once.
Sigterm ==
    /\ InDispatch
    /\ signal = "none"
    /\ signal' = "SIGTERM"
    /\ atSignal' = Unfinished
    /\ raised' = "SystemExit"
    /\ pc' = IF pc = "join" THEN "raised" ELSE "exit"
    /\ cleanups' = CleanupCount(cleanups)
    /\ todo_file' = todos
    /\ UNCHANGED <<other, codingVars, utilVars, todos, cli_running,
                   conversation_history, cli_pc, pending, line, nlines>>
    /\ UNCHANGED <<num_agents, task_templates, results, submitted, fstate, calls,
                   queue, nthreads, running, releasing, idleSem, nexited,
                   shutdown, finished, waiterQ, yielded>>

SignalNext == Next \/ Sigint \/ Sigterm

SignalSpec == Init /\ [][SignalNext]_vars

\* ------------------------------------------- a second, concurrent call
\* A second split_subagents call running at the same time (on the same or on
\* another agent).  Everything the function touches is a local of the call:
\* `results`, the executor with its queue and threads, the futures and the
\* SubAgent instances; `self` is only used to reach the method.  The record
\* `other` holds these locals; its steps are the steps of the first call.
PairMaxTasks == 1
PairMaxAgents == 2

PairTemplates == {"a", "boom"}

firstVars == <<num_agents, task_templates, pc, results, raised, submitted, fstate,
               calls, queue, nthreads, running, releasing, idleSem, nexited,
               shutdown, finished, waiterQ, yielded, signal, atSignal,
               codingVars, utilVars, cliVars>>

OtherN == Len(other.task_templates)
OtherFutures == 1..OtherN

OtherConstruct ==
    /\ other.pc = "call"
    /\ other' = IF InvalidBudget(other.num_agents)
                   THEN [other EXCEPT !.pc = "raised", !.raised = "ValueError"]
                   ELSE [other EXCEPT !.pc = "submit"]
    /\ UNCHANGED firstVars

OtherSubmit ==
    /\ other.pc = "submit"
    /\ other.submitted < OtherN
    /\ other' = [other EXCEPT
          !.submitted = @ + 1,
          !.queue = Enqueued(@, other.submitted + 1),
          !.idleSem = IF @ > 0 THEN @ - 1 ELSE @,
          !.nthreads = IF SpawnsThread(other.idleSem, @, other.num_agents)
                          THEN @ + 1 ELSE @]
    /\ UNCHANGED firstVars

OtherAsCompletedStart ==
    /\ other.pc = "submit"
    /\ other.submitted = OtherN
    /\ other' = [other EXCEPT
          !.finished = {k \in OtherFutures : other.fstate[k] = "finished"},
          !.pc = IF OtherN = 0 THEN "exit" ELSE "collect"]
    /\ UNCHANGED firstVars

OtherNextYield ==
    IF other.finished # {} THEN other.finished
    ELSE IF other.waiterQ # <<>> THEN {Head(other.waiterQ)}
    ELSE {}

\* The dict the second call's loop body appends for its future k.
OtherOutcome(idx, k) ==
    IF RunKind(other.task_templates[k]) = "return"
       THEN [task_id |-> idx, status |-> "success",
             result |-> RunValue(other.task_templates[k])]
       ELSE [task_id |-> idx, status |-> "error",
             error |-> StrExc(other.task_templates[k])]

OtherCollect(k) ==
    /\ other.pc = "collect"
    /\ k \in OtherNextYield
    /\ LET kind == RunKind(other.task_templates[k])
           idx == Len(other.yielded) + 1
           drained == IF other.finished # {}
                         THEN [other EXCEPT !.finished = @ \ {k},
                                            !.yielded = Append(@, k)]
                         ELSE [other EXCEPT !.waiterQ = Tail(@),
                                            !.yielded = Append(@, k)]
       IN other' =
            IF kind = "return" \/ Caught(kind)
               THEN [drained EXCEPT
                       !.results = Append(@, OtherOutcome(idx, k)),
                       !.pc = IF idx = OtherN THEN "exit" ELSE "collect"]
               ELSE [drained EXCEPT !.raised = kind, !.pc = "exit"]
    /\ UNCHANGED firstVars

OtherShutdown ==
    /\ other.pc = "exit"
    /\ other' = [other EXCEPT !.shutdown = TRUE, !.queue = Append(@, None),
                              !.pc = "join"]
    /\ UNCHANGED firstVars

OtherJoin ==
    /\ other.pc = "join"
    /\ other.nexited = other.nthreads
    /\ other' = [other EXCEPT
          !.pc = IF other.raised = "none" THEN "returned" ELSE "raised"]
    /\ UNCHANGED firstVars

OtherIdleThreads ==
    other.nthreads - other.nexited - Cardinality(other.running) - other.releasing

OtherWorkerStart ==
    /\ OtherIdleThreads > 0
    /\ other.queue # <<>>
    /\ Head(other.queue) # None
    /\ other' = [other EXCEPT
          !.fstate[Head(other.queue)] = "running",
          !.running = @ \cup {Head(other.queue)},
          !.queue = Tail(@)]
    /\ UNCHANGED firstVars

OtherWorkerFinish(k) ==
    /\ k \in other.running
    /\ other' = [other EXCEPT
          !.fstate[k] = "finished",
          !.running = @ \ {k},
          !.releasing = @ + 1,
          !.waiterQ = IF other.pc = "collect" THEN Append(@, k) ELSE @]
    /\ UNCHANGED firstVars

OtherWorkerRelease ==
    /\ other.releasing > 0
    /\ other' = [other EXCEPT !.releasing = @ - 1, !.idleSem = @ + 1]
    /\ UNCHANGED firstVars

OtherWorkerExit ==
    /\ OtherIdleThreads > 0
    /\ other.queue # <<>>
    /\ Head(other.queue) = None
    /\ other.shutdown
    /\ other' = [other EXCEPT !.queue = Append(Tail(@), None), !.nexited = @ + 1]
    /\ UNCHANGED firstVars

OtherNext ==
    \/ OtherConstruct
    \/ OtherSubmit
    \/ OtherAsCompletedStart
    \/ \E k \in OtherFutures : OtherCollect(k)
    \/ OtherShutdown
    \/ OtherJoin
    \/ OtherWorkerStart
    \/ \E k \in OtherFutures : OtherWorkerFinish(k)
    \/ OtherWorkerRelease
    \/ OtherWorkerExit

\* Two calls entered at the same time, each with a valid budget and at least
\* one template.
PairInit ==
    /\ num_agents \in 1..PairMaxAgents
    /\ task_templates \in UNION {[1..n -> PairTemplates] : n \in 1..PairMaxTasks}
    /\ pc = "call"
    /\ results = <<>>
    /\ raised = "none"
    /\ submitted = 0
    /\ fstate = [k \in 1..Len(task_templates) |-> "pending"]
    /\ calls = [k \in 1..Len(task_templates) |-> 0]
    /\ queue = <<>>
    /\ nthreads = 0
    /\ running = {}
    /\ releasing = 0
    /\ idleSem = 0
    /\ nexited = 0
    /\ shutdown = FALSE
    /\ finished = {}
    /\ waiterQ = <<>>
    /\ yielded = <<>>
    /\ signal = "none"
    /\ atSignal = {}
    /\ \E m \in 1..PairMaxAgents :
         \E tt \in UNION {[1..n -> PairTemplates] : n \in 1..PairMaxTasks} :
            other = [NoCall EXCEPT !.pc = "call", !.num_agents = m,
                                   !.task_templates = tt,
                                   !.fstate = [k \in 1..Len(tt) |-> "pending"]]
    /\ NoCodingCall
    /\ NoSession
    /\ NoUtilCall

PairNext == Next \/ OtherNext

PairSpec == PairInit /\ [][PairNext]_vars

\* ------------------------------------ CodingAgent.split_coding_subagents
MaxCodingAgents == 6

\* Every _generate_*_tasks builds a list of five task texts.
CatalogSize == 5

TaskTypes == {"code_review", "refactor", "test", "document", "debug"}

ReviewTasks ==
    <<"review style and PEP8", "review performance", "review security",
      "review readability", "review error handling">>

RefactorTasks ==
    <<"refactor structure", "refactor naming", "refactor complex logic",
      "refactor duplication", "refactor imports">>

TestTasks ==
    <<"test units", "test integration", "test boundaries", "test performance",
      "test report">>

DocumentTasks ==
    <<"document API", "document README", "document dev guide",
      "document user manual", "document architecture">>

DebugTasks ==
    <<"debug runtime errors", "debug logic errors", "debug data errors",
      "debug performance", "debug thread safety">>

Max(a, b) == IF a >= b THEN a ELSE b

\* The Python slice tasks[:n]: the first n elements for n >= 0, and all but
\* the last -n elements for n < 0.
SliceNoTruncation(tasks, n) ==
    [i \in 1..Max(n, 0) |-> tasks[Min(i, Len(tasks))]]

Slice(tasks, n) ==
    IF n >= 0 THEN SubSeq(tasks, 1, Min(n, Len(tasks)))
    ELSE SubSeq(tasks, 1, Max(Len(tasks) + n, 0))

generate_review_tasks(n) == Slice(ReviewTasks, n)
generate_refactor_tasks(n) == Slice(RefactorTasks, n)
generate_test_tasks(n) == Slice(TestTasks, n)
generate_document_tasks(n) == Slice(DocumentTasks, n)
generate_debug_tasks(n) == Slice(DebugTasks, n)

\* _generate_coding_tasks for a task_type that is a key of task_generators.
generate_coding_tasks(type, n) ==
    CASE type = "code_review" -> generate_review_tasks(n)
      [] type = "refactor" -> generate_refactor_tasks(n)
      [] type = "test" -> generate_test_tasks(n)
      [] type = "document" -> generate_document_tasks(n)
      [] type = "debug" -> generate_debug_tasks(n)

\* bool(project_id): None and the empty string are falsy.
Truthy(id) == id \notin {NoProject, ""}

\* `if project_id and project_id not in self.code_projects`.
UnknownProject(id, projects) == Truthy(id) /\ id \notin projects

\* `if task_type not in task_generators`.
UnsupportedType(type) == type \notin TaskTypes

\* split_coding_subagents up to the call of super().split_subagents: the two
\* checks, then the task list; split_subagents then runs with that list.
SplitCodingSubagents ==
    /\ pc = "coding"
    /\ IF UnknownProject(project_id, code_projects) \/ UnsupportedType(task_type)
          THEN /\ pc' = "raised"
               /\ raised' = "ValueError"
               /\ UNCHANGED <<task_templates, fstate, calls>>
          ELSE /\ task_templates' = generate_coding_tasks(task_type, num_agents)
               /\ fstate' = [k \in 1..Len(task_templates') |-> "pending"]
               /\ calls' = [k \in 1..Len(task_templates') |-> 0]
               /\ pc' = "call"
               /\ raised' = raised
    /\ UNCHANGED <<other, signal, atSignal, codingVars, utilVars, cliVars>>
    /\ UNCHANGED <<num_agents, results, submitted, queue, nthreads, running,
                   releasing, idleSem, nexited, shutdown, finished, waiterQ,
                   yielded>>

\* A call split_coding_subagents(task_type, num_agents, project_id) on an
\* agent that knows project "p1".
CodingInit ==
    /\ num_agents \in -1..MaxCodingAgents
    /\ task_type \in TaskTypes \cup {"deploy"}
    /\ project_id \in {NoProject, "", "p1", "p2"}
    /\ code_projects = {"p1"}
    /\ task_templates = <<>>
    /\ pc = "coding"
    /\ results = <<>>
    /\ raised = "none"
    /\ submitted = 0
    /\ fstate = <<>>
    /\ calls = <<>>
    /\ queue = <<>>
    /\ nthreads = 0
    /\ running = {}
    /\ releasing = 0
    /\ idleSem = 0
    /\ nexited = 0
    /\ shutdown = FALSE
    /\ finished = {}
    /\ waiterQ = <<>>
    /\ yielded = <<>>
    /\ signal = "none"
    /\ atSignal = {}
    /\ other = NoCall
    /\ NoSession
    /\ NoUtilCall

CodingNext == SplitCodingSubagents \/ Next

CodingSpec == CodingInit /\ [][CodingNext]_vars

\* --------------------------------------- MorphCLIController: a session
MaxTodos == 2
MaxSplit == 2
MaxLines == 2

\* "空任务", the text handle_split_command pads with.
Placeholder == "empty task"

\* The input lines of a session.  num is the integer a digit-only argument
\* stands for, and -1 for an argument that is missing or not digit-only.
Lines ==
    [cmd : {"!todos add"}, text : OkTemplates \cup {""}, num : {0}]
    \cup [cmd : {"!todos done"}, text : {""}, num : -1..(MaxTodos + 1)]
    \cup [cmd : {"!split"}, text : {""}, num : -1..MaxSplit]
    \cup [cmd : {"!exit", "message"}, text : {""}, num : {0}]

SystemMessage == [role |-> "system", content |-> "prompt"]
UserMessage == [role |-> "user", content |-> "message"]
AssistantMessage == [role |-> "assistant", content |-> "reply"]

\* The todo lists load_todos finds in the todo file: up to MaxTodos entries
\* with the texts "a", "b", "a", ... in this order, each done or not.
TodoLists ==
    UNION {{[i \in 1..n |-> [text |-> IF i % 2 = 1 THEN "a" ELSE "b",
                             done |-> d[i]]] : d \in [1..n -> BOOLEAN]}
           : n \in 0..MaxTodos}

\* MorphCLIController() followed by run() up to the first input(): the todos
\* are loaded, running is True, the agent's history holds the system prompt,
\* and no split_subagents call is in progress.
CliInit ==
    /\ todos \in TodoLists
    /\ todo_file = todos
    /\ cli_running = TRUE
    /\ conversation_history = <<SystemMessage>>
    /\ cli_pc = "input"
    /\ cleanups = 0
    /\ pending = <<>>
    /\ line = NoLine
    /\ nlines = 0
    /\ num_agents = 0
    /\ task_templates = <<>>
    /\ pc = "idle"
    /\ results = <<>>
    /\ raised = "none"
    /\ submitted = 0
    /\ fstate = <<>>
    /\ calls = <<>>
    /\ queue = <<>>
    /\ nthreads = 0
    /\ running = {}
    /\ releasing = 0
    /\ idleSem = 0
    /\ nexited = 0
    /\ shutdown = FALSE
    /\ finished = {}
    /\ waiterQ = <<>>
    /\ yielded = <<>>
    /\ signal = "none"
    /\ atSignal = {}
    /\ other = NoCall
    /\ NoCodingCall
    /\ NoUtilCall

\* The variables of a split_subagents call, untouched by the commands that
\* do not dispatch.
dispatchVars == <<num_agents, task_templates, pc, results, raised, submitted,
                  fstate, calls, queue, nthreads, running, releasing, idleSem,
                  nexited, shutdown, finished, waiterQ, yielded, atSignal>>

\* run(): `while self.running:` then input() returns the line l, and
\* process_user_input logs it and appends it to command_history.
ReadLine(l) ==
    /\ cli_pc = "input"
    /\ cli_running
    /\ nlines < MaxLines
    /\ l \in Lines
    /\ line' = l
    /\ nlines' = nlines + 1
    /\ signal' = "none"

\* save_todos(): the todo list ts is written to the todo file.
SaveTodos(ts) == todo_file' = ts

\* handle_todo_command, "add": the joined text is appended as a not-done
\* todo and the list is saved; an empty text is a usage error.
Added(ts, text) == Append(ts, [text |-> text, done |-> FALSE])

TodosAdd(l) ==
    /\ ReadLine(l)
    /\ l.cmd = "!todos add"
    /\ l.text # "" => Len(todos) < MaxTodos
    /\ IF l.text = ""
          THEN UNCHANGED <<todos, todo_file>>
          ELSE /\ todos' = Added(todos, l.text)
               /\ SaveTodos(todos')
    /\ UNCHANGED <<cli_running, conversation_history, cli_pc, cleanups, pending>>
    /\ UNCHANGED <<dispatchVars, other, codingVars, utilVars>>

\* handle_todo_command, "done": `idx = int(args[1]) - 1` and
\* `0 <= idx < len(self.todos)`.
InRangeNoLowerBound(k, ts) == k - 1 < Len(ts)

InRange(k, ts) == 0 <= k - 1 /\ k - 1 < Len(ts)

\* The 1-based position of ts[idx] for a Python index idx: a negative index
\* counts from the end.
PyIndex(idx, ts) == IF idx < 0 THEN Len(ts) + idx + 1 ELSE idx + 1

\* An argument that is not digit-only is an unknown operation; an index out
\* of range is reported; otherwise the k-th todo is set done and the list is
\* saved.
TodosDone(l) ==
    /\ ReadLine(l)
    /\ l.cmd = "!todos done"
    /\ IF l.num # -1 /\ InRange(l.num, todos)
          THEN /\ PyIndex(l.num - 1, todos) \in 1..Len(todos)
               /\ todos' = [todos EXCEPT ![PyIndex(l.num - 1, todos)].done = TRUE]
               /\ SaveTodos(todos')
          ELSE UNCHANGED <<todos, todo_file>>
    /\ UNCHANGED <<cli_running, conversation_history, cli_pc, cleanups, pending>>
    /\ UNCHANGED <<dispatchVars, other, codingVars, utilVars>>

\* handle_split_command: `[t for t in self.todos if not t.get("done")][:n]`,
\* as the positions of those todos in the list (pending holds the dicts
\* themselves), padded with placeholders (position 0) up to n entries.
NotDone(ts) == SelectSeq([i \in 1..Len(ts) |-> i], LAMBDA i : ~ts[i].done)

PendingUnpadded(ts, n) == Slice(NotDone(ts), n)

PendingOf(ts, n) ==
    Slice(NotDone(ts), n)
        \o [i \in 1..(n - Len(Slice(NotDone(ts), n))) |-> 0]

\* `tasks = [item if isinstance(item, str) else item["text"] for item in pending]`.
TasksOf(ts, pend) ==
    [i \in 1..Len(pend) |-> IF pend[i] = 0 THEN Placeholder ELSE ts[pend[i]].text]

\* "!split" with a missing or non-digit argument: usage error.
SplitUsage(l) ==
    /\ ReadLine(l)
    /\ l.cmd = "!split"
    /\ l.num = -1
    /\ UNCHANGED <<todos, todo_file, cli_running, conversation_history, cli_pc,
                   cleanups, pending>>
    /\ UNCHANGED <<dispatchVars, other, codingVars, utilVars>>

\* "!split N": handle_split_command up to the call
\* self.agent.split_subagents(n, tasks), which starts with fresh locals.
SplitBegin(l) ==
    /\ ReadLine(l)
    /\ l.cmd = "!split"
    /\ l.num # -1
    /\ pending' = PendingOf(todos, l.num)
    /\ num_agents' = l.num
    /\ task_templates' = TasksOf(todos, pending')
    /\ fstate' = [k \in 1..Len(pending') |-> "pending"]
    /\ calls' = [k \in 1..Len(pending') |-> 0]
    /\ pc' = "call"
    /\ cli_pc' = "split"
    /\ atSignal' = {}
    /\ UNCHANGED <<todos, todo_file, cli_running, conversation_history, cleanups>>
    /\ UNCHANGED <<results, raised, submitted, queue, nthreads, running,
                   releasing, idleSem, nexited, shutdown, finished, waiterQ,
                   yielded, other, codingVars, utilVars>>

\* The locals of a split_subagents call that has ended are gone.
DispatchOver ==
    /\ pc' = "idle"
    /\ num_agents' = 0
    /\ task_templates' = <<>>
    /\ results' = <<>>
    /\ raised' = "none"
    /\ submitted' = 0
    /\ fstate' = <<>>
    /\ calls' = <<>>
    /\ queue' = <<>>
    /\ nthreads' = 0
    /\ nexited' = 0
    /\ idleSem' = 0
    /\ shutdown' = FALSE
    /\ yielded' = <<>>
    /\ pending' = <<>>
    /\ running' = {}
    /\ releasing' = 0
    /\ finished' = {}
    /\ waiterQ' = <<>>

\* The todos of `pending` set done: `item["done"] = True` for every dict.
MarkedAll(ts, pend) == [i \in 1..Len(ts) |-> [ts[i] EXCEPT !.done = TRUE]]

Marked(ts, pend) ==
    [i \in 1..Len(ts) |->
        IF \E j \in 1..Len(pend) : pend[j] = i
           THEN [ts[i] EXCEPT !.done = TRUE] ELSE ts[i]]

\* split_subagents returned: the pending todos are marked done, the list is
\* saved, the results are written to the output file, and the loop reads on.
SplitReturn ==
    /\ cli_pc = "split"
    /\ pc = "returned"
    /\ todos' = Marked(todos, pending)
    /\ SaveTodos(todos')
    /\ cli_pc' = "input"
    /\ DispatchOver
    /\ UNCHANGED <<cli_running, conversation_history, cleanups, line, nlines>>
    /\ UNCHANGED <<signal, atSignal, other, codingVars, utilVars>>

\* run(): `except Exception` reports what process_user_input raised and the
\* loop goes on; any other BaseException leaves the loop for `finally`.
LoopCatchesNothing(exc) == FALSE

LoopCatches(exc) == exc \in {"ValueError", "Exception"}

\* split_subagents raised: handle_split_command is left before the todos are
\* marked.
SplitRaise ==
    /\ cli_pc = "split"
    /\ pc = "raised"
    /\ cli_pc' = IF LoopCatches(raised) THEN "input" ELSE "unwinding"
    /\ DispatchOver
    /\ UNCHANGED <<todos, todo_file, cli_running, conversation_history, cleanups,
                   line, nlines>>
    /\ UNCHANGED <<signal, atSignal, other, codingVars, utilVars>>

\* "!exit" is no branch of process_user_input: the line goes to
\* self.agent.handle_command, which returns False and does nothing, and run()
\* ignores what process_user_input returns.
Exit(l) ==
    /\ ReadLine(l)
    /\ l.cmd = "!exit"
    /\ UNCHANGED <<todos, todo_file, cli_running, conversation_history, cli_pc,
                   cleanups, pending>>
    /\ UNCHANGED <<dispatchVars, other, codingVars, utilVars>>

\* MorphAgent.process_message: the user message is appended, then _stream_chat
\* returns the reply, which is appended, or raises and nothing more happens.
Processed(msgs, replied) ==
    IF replied THEN msgs \o <<UserMessage, AssistantMessage>>
    ELSE Append(msgs, UserMessage)

\* A line that is no command: process_message; an error of the model backend
\* is caught by run() and the loop goes on.
Message(l, replied) ==
    /\ ReadLine(l)
    /\ l.cmd = "message"
    /\ conversation_history' = Processed(conversation_history, replied)
    /\ UNCHANGED <<todos, todo_file, cli_running, cli_pc, cleanups, pending>>
    /\ UNCHANGED <<dispatchVars, other, codingVars, utilVars>>

\* input() raises EOFError: running becomes False and the while loop ends.
Eof ==
    /\ cli_pc = "input"
    /\ cli_running
    /\ cli_running' = FALSE
    /\ cli_pc' = "finally"
    /\ UNCHANGED <<todos, todo_file, conversation_history, cleanups, pending,
                   line, nlines>>
    /\ UNCHANGED <<dispatchVars, signal, other, codingVars, utilVars>>

\* run(): `finally: self.cleanup()`, on the way out of the loop or with an
\* exception pending.
Finally ==
    /\ cli_pc \in {"finally", "unwinding"}
    /\ cleanups' = CleanupCount(cleanups)
    /\ SaveTodos(todos)
    /\ cli_pc' = IF cli_pc = "finally" THEN "returned" ELSE "raised"
    /\ UNCHANGED <<todos, cli_running, conversation_history, pending, line, nlines>>
    /\ UNCHANGED <<dispatchVars, signal, other, codingVars, utilVars>>

\* SIGTERM while run() waits in input() or is between the loop and
\* `finally`: handle_terminate runs cleanup(), and sys.exit(0) raises
\* SystemExit inside the try block of run().
CliSigterm ==
    /\ cli_pc \in {"input", "finally"}
    /\ signal # "SIGTERM"
    /\ signal' = "SIGTERM"
    /\ cleanups' = CleanupCount(cleanups)
    /\ SaveTodos(todos)
    /\ cli_pc' = "unwinding"
    /\ UNCHANGED <<todos, cli_running, conversation_history, pending, line, nlines>>
    /\ UNCHANGED <<dispatchVars, other, codingVars, utilVars>>

\* Ctrl+C while run() waits in input(): handle_interrupt prints the hint to
\* enter !exit, and input() goes on waiting.
CliSigint ==
    /\ cli_pc = "input"
    /\ signal = "none"
    /\ signal' = "SIGINT"
    /\ UNCHANGED <<dispatchVars, other, codingVars, utilVars, cliVars>>

CliNext ==
    \/ \E l \in Lines : TodosAdd(l)
    \/ \E l \in Lines : TodosDone(l)
    \/ \E l \in Lines : SplitUsage(l)
    \/ \E l \in Lines : SplitBegin(l)
    \/ \E l \in Lines : Exit(l)
    \/ \E l \in Lines : \E replied \in BOOLEAN : Message(l, replied)
    \/ SplitReturn
    \/ SplitRaise
    \/ Eof
    \/ Finally
    \/ CliSigterm
    \/ CliSigint
    \/ Sigterm
    \/ Next

CliSpec == CliInit /\ [][CliNext]_vars

\* ------------------------------------------------ utils.truncate_history
MaxHistory == 3

Messages == {"m1", "m2", "m3"}

\* The Python slice seq[start:]: a negative start counts from the end, and
\* -0 is 0, the start of the list.
SliceFrom(seq, start) ==
    IF start < 0 THEN SubSeq(seq, Max(Len(seq) + start, 0) + 1, Len(seq))
    ELSE SubSeq(seq, Min(start, Len(seq)) + 1, Len(seq))

\* truncate_history: the list itself when it has at most max_messages
\* entries, and history[-max_messages:] otherwise.
truncate_history(h, m) ==
    IF Len(h) <= m THEN h ELSE SliceFrom(h, -m)

\* No split_subagents call is in progress.
NoDispatch ==
    /\ num_agents = 0
    /\ task_templates = <<>>
    /\ pc = "idle"
    /\ results = <<>>
    /\ raised = "none"
    /\ submitted = 0
    /\ fstate = <<>>
    /\ calls = <<>>
    /\ queue = <<>>
    /\ nthreads = 0
    /\ running = {}
    /\ releasing = 0
    /\ idleSem = 0
    /\ nexited = 0
    /\ shutdown = FALSE
    /\ finished = {}
    /\ waiterQ = <<>>
    /\ yielded = <<>>
    /\ signal = "none"
    /\ atSignal = {}
    /\ other = NoCall

\* A call truncate_history(history, max_messages).
UtilInit ==
    /\ history \in UNION {[1..n -> Messages] : n \in 0..MaxHistory}
    /\ max_messages \in -1..(MaxHistory + 1)
    /\ truncated = <<>>
    /\ util_pc = "call"
    /\ NoDispatch
    /\ NoCodingCall
    /\ NoSession

TruncateHistory ==
    /\ util_pc = "call"
    /\ truncated' = truncate_history(history, max_messages)
    /\ util_pc' = "returned"
    /\ UNCHANGED <<history, max_messages>>
    /\ UNCHANGED <<dispatchVars, signal, other, codingVars, cliVars>>

UtilNext == TruncateHistory

UtilSpec == UtilInit /\ [][UtilNext]_vars

TypeOK ==
    /\ pc \in {"call", "submit", "collect", "exit", "join", "returned", "raised"}
    /\ raised \in {"none", "ValueError", "BaseException", "SystemExit"}
    /\ signal \in {"none", "SIGINT", "SIGTERM"}
    /\ atSignal \subseteq Futures
    /\ submitted \in 0..N
    /\ running \subseteq Futures
    /\ nthreads \in 0..MaxAgents
    /\ nthreads <= submitted
    /\ Len(results) <= N

\* ----------------------------------------------------------------- claims
\* The record r carries what SubAgent.run produced for template k: its return
\* value with status success, or the description of its error with status
\* error.
Carries(r, k) ==
    IF RunKind(task_templates[k]) = "return"
       THEN r.status = "success" /\ r.result = RunValue(task_templates[k])
       ELSE r.status = "error" /\ r.error = StrExc(task_templates[k])

\* Futures that were yielded before a future submitted earlier.
OutOfOrder ==
    \E i, j \in 1..Len(yielded) : i < j /\ yielded[i] > yielded[j]

\* C1: submission-order labelling -- in the returned list the outcome
\* labelled T(i+1) carries the result or error produced by the i-th submitted
\* template, whatever the order in which the workers completed.
C1_LabelFollowsSubmission ==
    pc = "returned" =>
        \A j \in 1..Len(results) :
            /\ results[j].task_id \in Futures
            /\ Carries(results[j], results[j].task_id)

\* C2: submission-order result sequence -- the k-th element of the returned
\* list is the outcome of the k-th submitted template.
C2_SequenceFollowsSubmission ==
    pc = "returned" =>
        /\ Len(results) = N
        /\ \A k \in Futures : Carries(results[k], k)

\* C3: completeness -- for num_agents >= 1 the returned list has exactly
\* len(task_templates) elements, whichever tasks failed and whatever the
\* completion order.
C3_Completeness ==
    (pc = "returned" /\ num_agents >= 1) => Len(results) = Len(task_templates)

C3_Witness ==
    /\ pc = "returned"
    /\ Len(results) >= 2
    /\ OutOfOrder
    /\ \E j \in 1..Len(results) : results[j].status = "error"

FailingSet == {k \in Futures : RunKind(task_templates[k]) # "return"}

C5_FailureIsolation ==
    pc = "returned" =>
        \A k \in Futures :
            \E j \in 1..Len(results) :
                /\ results[j].task_id = k
                /\ results[j].status = (IF k \in FailingSet THEN "error" ELSE "success")
                /\ k \notin FailingSet => results[j].result = RunValue(task_templates[k])

\* C6: no worker failure escapes -- whatever SubAgent.run raises, the call
\* does not raise; the only error split_subagents raises is the one for an
\* invalid concurrency budget.
C6_OnlyConfigurationErrorEscapes ==
    pc = "raised" => (raised = "ValueError" /\ num_agents < 1)

\* C7: concurrency bound -- during a dispatch with a valid budget the number
\* of SubAgent.run invocations executing at once never exceeds
\* min(num_agents, len(task_templates)).
C7_ConcurrencyBound ==
    num_agents >= 1 =>
        Cardinality(running) <= Min(num_agents, Len(task_templates))

C7_Witness ==
    /\ num_agents >= 2
    /\ Len(task_templates) > num_agents
    /\ Cardinality(running) = num_agents
    /\ queue # <<>>

\* C8: configuration error -- with num_agents < 1 the call raises at once:
\* nothing is submitted, no thread is started, no worker is invoked and no
\* outcome list is produced, for every task list including the empty one.
C8_ConfigurationError ==
    num_agents < 1 =>
        /\ pc \in {"call", "raised"}
        /\ pc = "raised" => raised = "ValueError"
        /\ submitted = 0
        /\ queue = <<>>
        /\ nthreads = 0
        /\ \A k \in Futures : calls[k] = 0 /\ fstate[k] = "pending"
        /\ results = <<>>

C8_Witness ==
    /\ num_agents = 0
    /\ Len(task_templates) >= 2
    /\ pc = "raised"
    /\ raised = "ValueError"

\* C9: empty input -- with num_agents >= 1 and no templates the call returns
\* the empty list; it starts no worker thread, invokes no worker and raises
\* nothing.
C9_EmptyInput ==
    (num_agents >= 1 /\ Len(task_templates) = 0) =>
        /\ pc \in {"call", "submit", "exit", "join", "returned"}
        /\ raised = "none"
        /\ results = <<>>
        /\ nthreads = 0
        /\ running = {}

C9_Witness ==
    /\ num_agents >= 1
    /\ Len(task_templates) = 0
    /\ pc = "returned"
    /\ results = <<>>

\* C10: no early return -- when the call returns, every submitted task has
\* completed or failed, none is queued or running, and the list returned
\* holds an outcome for every one of them.
C10_NoEarlyReturn ==
    pc = "returned" =>
        /\ submitted = N
        /\ \A k \in Futures : fstate[k] = "finished" /\ calls[k] = 1
        /\ running = {}
        /\ \A i \in 1..Len(queue) : queue[i] = None
        /\ \A k \in Futures : \E j \in 1..Len(results) : yielded[j] = k

C10_Witness ==
    /\ pc = "returned"
    /\ num_agents < N
    /\ N >= 2
    /\ \A k \in Futures : fstate[k] = "finished"

\* C11: single invocation -- SubAgent.run is invoked at most once for a
\* template, only for a template that was submitted, and exactly once for
\* each of them by the time the call returns; a failed task is not retried.
C11_SingleInvocation ==
    /\ \A k \in Futures :
          /\ calls[k] <= 1
          /\ calls[k] = 1 => k <= submitted
          /\ (fstate[k] = "finished" /\ RunKind(task_templates[k]) # "return")
                => (calls[k] = 1 /\ \A i \in 1..Len(queue) : queue[i] # k)
    /\ running \subseteq 1..submitted
    /\ \A i \in 1..Len(queue) : queue[i] \in 0..submitted
    /\ pc = "returned" => \A k \in Futures : calls[k] = 1

C11_Witness ==
    /\ pc = "returned"
    /\ N >= 2
    /\ \E k \in Futures : RunKind(task_templates[k]) = "Exception" /\ calls[k] = 1
    /\ \A k \in Futures : calls[k] = 1

\* C14: outcome shape -- every outcome in the list has status success or
\* error; it has a result field exactly when its status is success and an
\* error field exactly when its status is error.
C14_OutcomeShape ==
    \A j \in 1..Len(results) :
        /\ results[j].status \in {"success", "error"}
        /\ ("result" \in DOMAIN results[j]) <=> (results[j].status = "success")
        /\ ("error" \in DOMAIN results[j]) <=> (results[j].status = "error")

C14_Witness ==
    /\ pc = "returned"
    /\ \E i, j \in 1..Len(results) :
          /\ results[i].status = "success" /\ "result" \in DOMAIN results[i]
          /\ results[j].status = "error" /\ "error" \in DOMAIN results[j]

\* The list a plain loop over task_templates builds: template k is run and
\* its outcome appended at position k, for k = 1, 2, ..., n in turn.
RECURSIVE SequentialLoop(_, _)
SequentialLoop(res, k) ==
    IF k > N THEN res
    ELSE SequentialLoop(Body(res, k, k, RunKind(task_templates[k])), k + 1)

\* The records in submission order: T(k) with the status and result or error
\* of the k-th template.
SubmissionOrderOutcomes ==
    [k \in Futures |->
        IF RunKind(task_templates[k]) = "return"
           THEN SuccessOutcome(k, k) ELSE ErrorOutcome(k, k)]

\* C15: determinism across schedules -- for a fixed task list every
\* execution returns one and the same list of (label, status, result or
\* error) records whatever the scheduling; the execution in which the tasks
\* complete in submission order returns the records in submission order
\* ([T1 success d0, T2 error, T3 success d2] in the spec's scenario), so
\* every execution must return exactly that list.
C15_DeterministicResult ==
    pc = "returned" => results = SubmissionOrderOutcomes

\* C17: sequential equivalence -- with a concurrency budget of 1 the
\* returned list is the list a plain sequential loop over the templates
\* builds: same order, labels, statuses and results.
C17_SequentialEquivalence ==
    (num_agents = 1 /\ pc = "returned") => results = SequentialLoop(<<>>, 1)

\* C18: no padding -- when num_agents exceeds the number of templates only
\* the submitted templates are queued, run and reported: no future beyond
\* the n submitted ones exists, no more than n threads are started, and the
\* returned list holds one outcome for each template and nothing else.
C18_NoPadding ==
    num_agents > N =>
        /\ submitted <= N
        /\ nthreads <= N
        /\ running \subseteq Futures
        /\ \A i \in 1..Len(queue) : queue[i] = None \/ queue[i] \in Futures
        /\ Len(results) <= N
        /\ pc = "returned" =>
              /\ Len(results) = N
              /\ \A j \in 1..N :
                    /\ yielded[j] \in Futures
                    /\ Carries(results[j], yielded[j])
                    /\ \A i \in 1..N : yielded[i] = yielded[j] => i = j

C18_Witness ==
    /\ pc = "returned"
    /\ N >= 2
    /\ num_agents > N
    /\ Len(results) = N

\* C19: termination -- for num_agents >= 1, when every worker invocation
\* finishes, split_subagents eventually returns, whatever the batch size.
C19_EventuallyReturns == (num_agents >= 1) ~> (pc = "returned")

\* The call always ends: it returns, or it raises.
CallEnds == (pc = "call") ~> (pc \in {"returned", "raised"})

\* C20: effective concurrency -- the dispatcher does not serialise below its
\* budget: while a task waits in the queue and fewer than num_agents
\* invocations are executing, a worker thread is free to take it (idle at the
\* queue, or on its way back to it), so it starts without waiting for a
\* running task to end; min(num_agents, n) simultaneous invocations are
\* reached.
QueuedTasks == {k \in Futures : \E i \in 1..Len(queue) : queue[i] = k}

C20_EffectiveConcurrency ==
    (QueuedTasks # {} /\ Cardinality(running) < num_agents)
        => IdleThreads + releasing > 0

C20_Witness ==
    /\ num_agents >= 2
    /\ N >= 2
    /\ Cardinality(running) = Min(num_agents, N)

\* The outcome reported for future k in the returned list.
OutcomeOfFuture(k) == results[CHOOSE j \in 1..Len(yielded) : yielded[j] = k]

\* Error descriptions a failing worker produces.
WorkerErrors == {StrExc(t) : t \in Templates}

\* C12: cancellation preserves completeness -- when the caller is
\* interrupted after submitting its tasks, while some are still in flight,
\* the call stops waiting and
\* returns (it does not raise) a list of exactly n outcomes in which the tasks
\* finished by then keep their executed status and every task unfinished at
\* that moment is reported as a failure.
C12_CancellationCompleteness ==
    (signal # "none" /\ atSignal # {} /\ submitted = N) =>
        /\ pc # "raised"
        /\ pc = "returned" =>
              /\ Len(results) = N
              /\ \A k \in Futures \ atSignal : Carries(OutcomeOfFuture(k), k)
              /\ \A k \in atSignal : OutcomeOfFuture(k).status = "error"

\* C13: cancelled tasks are distinguishable -- an error outcome reported for
\* a task that was unfinished at the interruption carries an error detail
\* different from every error a failing worker produces.
C13_CancelledDistinguishable ==
    (signal # "none" /\ pc = "returned") =>
        \A k \in atSignal :
            OutcomeOfFuture(k).status = "error"
                => OutcomeOfFuture(k).error \notin WorkerErrors

\* C16: independence of concurrent batches -- of two split_subagents calls
\* running at the same time each returns exactly the outcomes of its own
\* templates: as many outcomes as it has templates, labelled T1..Tn in list
\* order, each carrying the result or error of one of its own futures, every
\* future once -- what the call returns when it runs alone.
OtherCarries(r, k) ==
    IF RunKind(other.task_templates[k]) = "return"
       THEN r.status = "success" /\ r.result = RunValue(other.task_templates[k])
       ELSE r.status = "error" /\ r.error = StrExc(other.task_templates[k])

C16_IndependentBatches ==
    /\ pc = "returned" =>
          /\ Len(results) = N
          /\ Len(yielded) = N
          /\ \A j \in 1..N :
                /\ results[j].task_id = j
                /\ yielded[j] \in Futures
                /\ Carries(results[j], yielded[j])
                /\ \A i \in 1..N : yielded[i] = yielded[j] => i = j
    /\ other.pc = "returned" =>
          /\ Len(other.results) = OtherN
          /\ Len(other.yielded) = OtherN
          /\ \A j \in 1..OtherN :
                /\ other.results[j].task_id = j
                /\ other.yielded[j] \in OtherFutures
                /\ OtherCarries(other.results[j], other.yielded[j])
                /\ \A i \in 1..OtherN : other.yielded[i] = other.yielded[j] => i = j

\* Both calls have returned, and their tasks differ, so an outcome of one in
\* the list of the other would show.
C16_Witness ==
    /\ pc = "returned"
    /\ other.pc = "returned"
    /\ task_templates # other.task_templates
    /\ Len(results) >= 1
    /\ Len(other.results) >= 1

\* The two calls do overlap: both are inside their for loop with work done.
PairOverlaps ==
    /\ pc = "collect" /\ other.pc = "collect"
    /\ running # {} /\ other.running # {}

\* The 5-entry catalog of a task type.
CatalogOf(type) ==
    CASE type = "code_review" -> ReviewTasks
      [] type = "refactor" -> RefactorTasks
      [] type = "test" -> TestTasks
      [] type = "document" -> DocumentTasks
      [] type = "debug" -> DebugTasks

\* split_coding_subagents has passed its checks and built the task list.
Generated ==
    /\ pc # "coding"
    /\ task_type \in TaskTypes
    /\ project_id \in {NoProject, ""} \/ project_id \in code_projects

\* The task list is the first min(num_agents, 5) catalog entries in catalog
\* order, and a list that is returned has that many outcomes.
TruncatedToCatalog ==
    /\ task_templates =
          SubSeq(CatalogOf(task_type), 1, Min(num_agents, CatalogSize))
    /\ pc = "returned" => Len(results) = Min(num_agents, CatalogSize)

\* C21 as stated, for every num_agents: the generator returns the first
\* min(num_agents, 5) entries of its catalog.
C21_CatalogTruncationAnyCount == Generated => TruncatedToCatalog

\* C21: catalog truncation -- for num_agents >= 0 each task generator reached
\* through _generate_coding_tasks returns the first min(num_agents, 5) entries
\* of its 5-entry catalog in catalog order, so split_coding_subagents returns
\* min(num_agents, 5) outcomes, fewer than requested when num_agents > 5, and
\* never pads.
C21_CatalogTruncation == (Generated /\ num_agents >= 0) => TruncatedToCatalog

C21_Witness ==
    /\ pc = "returned"
    /\ num_agents > CatalogSize
    /\ Len(results) = CatalogSize
    /\ task_templates = CatalogOf(task_type)

\* C27: validation before dispatch in split_coding_subagents -- when
\* project_id is given and is not a key of code_projects, or when task_type
\* is not one of the five task types, the call raises ValueError before any
\* sub-agent task is created or run, and code_projects is left unchanged.
C27_ValidationBeforeDispatch ==
    (/\ pc # "coding"
     /\ \/ project_id # NoProject /\ project_id \notin code_projects
        \/ task_type \notin TaskTypes)
    => /\ pc = "raised"
       /\ raised = "ValueError"
       /\ task_templates = <<>>
       /\ submitted = 0
       /\ nthreads = 0
       /\ code_projects = {"p1"}

\* The number of not-done todos, and the position in the list of the i-th of
\* them.
Backlog(ts) == Cardinality({j \in 1..Len(ts) : ~ts[j].done})

NthNotDone(ts, i) ==
    CHOOSE j \in 1..Len(ts) :
        /\ ~ts[j].done
        /\ Cardinality({m \in 1..(j - 1) : ~ts[m].done}) = i - 1

\* C22: backlog padding in the CLI task source -- for "!split N" with N >= 1
\* the task list handed to split_subagents has exactly N entries: the texts
\* of the first min(N, u) not-done todos in todo-list order (u the number of
\* not-done todos), then N - min(N, u) placeholder tasks; and the concurrency
\* budget passed equals N.
C22_BacklogPadding ==
    (cli_pc = "split" /\ line.num >= 1) =>
        /\ num_agents = line.num
        /\ Len(task_templates) = line.num
        /\ \A i \in 1..line.num :
              task_templates[i] =
                 IF i <= Min(line.num, Backlog(todos))
                    THEN todos[NthNotDone(todos, i)].text
                    ELSE Placeholder

C22_Witness ==
    /\ cli_pc = "split"
    /\ pc = "collect"
    /\ line.num = 2
    /\ Len(todos) = 2
    /\ todos[1].done
    /\ ~todos[2].done
    /\ task_templates = <<todos[2].text, Placeholder>>

\* C23: "!exit" ends the interactive session -- once the user has entered
\* "!exit" the CLI reads no more input: running is false and run() is in, or
\* past, its cleanup.
C23_ExitEndsSession ==
    line.cmd = "!exit" =>
        /\ ~cli_running
        /\ cli_pc \in {"finally", "returned"}

\* C24: truncate_history keeps the newest max_messages entries -- for every
\* history and every max_messages >= 0 the result is the suffix of history of
\* length min(len(history), max_messages), in the original order; in
\* particular it never has more than max_messages entries.
C24_KeepsNewest ==
    (util_pc = "returned" /\ max_messages >= 0) =>
        /\ Len(truncated) = Min(Len(history), max_messages)
        /\ Len(truncated) <= max_messages
        /\ \A i \in 1..Len(truncated) :
              truncated[i] = history[Len(history) - Len(truncated) + i]

\* C25: conversation history shape -- conversation_history[0] is the single
\* system message and the entries after it strictly alternate user,
\* assistant, also after a call in which the model backend raised an error.
C25_HistoryShape ==
    cli_pc # "absent" =>
        /\ conversation_history[1] = SystemMessage
        /\ \A i \in 2..Len(conversation_history) :
              conversation_history[i].role =
                 IF i % 2 = 0 THEN "user" ELSE "assistant"

\* Todo i is one of the first n not-done todos of ts.
AmongFirstNotDone(ts, i, n) ==
    /\ ~ts[i].done
    /\ Cardinality({m \in 1..i : ~ts[m].done}) <= n

\* C26: effect of "!split N" on the todo list -- when the command returns
\* normally exactly the first min(N, u) todos that were not done before it
\* are marked done, every other todo keeps its text and done flag, and the
\* list keeps its length and order; while the dispatch runs, and when it
\* raises, no todo changes; a done flag never goes back to false.
C26_SplitEffect ==
    [][/\ (cli_pc = "split" /\ pc = "returned" /\ cli_pc' # "split") =>
            /\ Len(todos') = Len(todos)
            /\ \A i \in 1..Len(todos) :
                  /\ todos'[i].text = todos[i].text
                  /\ todos'[i].done =
                        (todos[i].done \/ AmongFirstNotDone(todos, i, line.num))
       /\ (cli_pc = "split" /\ pc # "returned") => todos' = todos
       /\ cli_pc = "split" =>
            \A i \in 1..Len(todos) : todos[i].done => todos'[i].done]_vars

C26_Witness ==
    /\ cli_pc = "input"
    /\ nlines = 1
    /\ line.cmd = "!split"
    /\ line.num = 1
    /\ Len(todos) = 2
    /\ todos[1].done
    /\ ~todos[2].done

\* C28: todo commands -- "!todos add <text>" with a non-empty text appends
\* exactly one entry {text, done: false} at the end and changes no existing
\* entry; "!todos done k" sets done on the k-th entry (1-based) only when
\* 1 <= k <= len(todos), and otherwise (k = 0 included) leaves the whole list
\* unchanged; no todo command removes an entry or clears a done flag.
C28_TodoCommands ==
    [][(nlines' = nlines + 1) =>
          /\ (line'.cmd = "!todos add" /\ line'.text # "") =>
                todos' = todos \o <<[text |-> line'.text, done |-> FALSE]>>
          /\ (line'.cmd = "!todos add" /\ line'.text = "") => todos' = todos
          /\ (line'.cmd = "!todos done") =>
                IF line'.num \in 1..Len(todos)
                   THEN /\ Len(todos') = Len(todos)
                        /\ \A i \in 1..Len(todos) :
                              /\ todos'[i].text = todos[i].text
                              /\ todos'[i].done =
                                    (todos[i].done \/ i = line'.num)
                   ELSE todos' = todos
          /\ (line'.cmd \in {"!todos add", "!todos done"}) =>
                /\ Len(todos') >= Len(todos)
                /\ \A i \in 1..Len(todos) :
                      /\ todos'[i].text = todos[i].text
                      /\ todos[i].done => todos'[i].done]_vars

C28_Witness ==
    /\ nlines = 2
    /\ line.cmd = "!todos done"
    /\ line.num = 2
    /\ Len(todos) = 2
    /\ todos[2].done
    /\ ~todos[1].done
    /\ todo_file = todos

C30_CleanupOnce ==
    /\ cleanups <= 1
    /\ cli_pc \in {"returned", "raised"} => cleanups = 1

====
